---- MODULE Spec2Model ----
(***************************************************************************)
(* Model of examples/bottomhalf.c: a kernel module that requests one LED   *)
(* GPIO and two button GPIOs, binds button_isr to both button interrupts,  *)
(* and defers slow work to the work item bottomhalf_work.                  *)
(*                                                                         *)
(* Sequences are 1-based here: button_irqs[1] is the C button_irqs[0],     *)
(* buttons[1] is the C buttons[0].                                         *)
(***************************************************************************)
EXTENDS Integers, Sequences, FiniteSets

\* ---- bounds of the model ----
NCpu == 2          \* processors that can run button_isr
NWorkers == 2      \* kworkers of the system workqueue
MaxFires == 3      \* handler invocations in one behaviour

\* ---- program constants ----
leds == <<4>>              \* static struct gpio leds[]    (gpio numbers)
buttons == <<17, 18>>      \* static struct gpio buttons[] (gpio numbers)
ARRAY_SIZE(a) == Len(a)

Lines == {leds[1], buttons[1], buttons[2]}
\* the platform's map from a line to its interrupt number: fixed and
\* one-to-one; the numbers themselves are arbitrary
IrqOf(g) == 100 + g
Irqs == {IrqOf(l) : l \in Lines}
Cpus == 1..NCpu
Workers == 1..NWorkers
ErrCodes == {-22, -16}     \* negative errno values a collaborator may return

VARIABLES
  variant,        \* "per_line" (NO_GPIO_REQUEST_ARRAY defined) or "array"
  ipc,            \* position of bottomhalf_init
  ret,            \* local variable ret of bottomhalf_init
  epc,            \* position of bottomhalf_exit
  button_irqs,    \* static int button_irqs[]
  held,           \* gpiolib: which lines are currently requested
  ledDir,         \* hardware: direction of the LED pin ("in" or "out")
  ledVal,         \* hardware: level of the LED pin (0 or 1)
  registered,     \* irq core: interrupt numbers that have button_isr attached
  isr,            \* per processor: the running invocation of button_isr
  bottomhalf_work,\* the work item: its PENDING bit and its queue entries
  wpc,            \* per kworker: position inside bottomhalf_work_fn
  log,            \* history: acquisitions and releases, in call order
  unheld,         \* history: lines read or written while not requested
  hist            \* history: counters and flags about handler invocations

vars == <<variant, ipc, ret, epc, button_irqs, held, ledDir, ledVal,
          registered, isr, bottomhalf_work, wpc, log, unheld, hist>>

IsrIdle == [pc |-> "idle", irq |-> -1, subs |-> 0, ops |-> <<>>]

Init ==
  /\ variant \in {"per_line", "array"}
  /\ ipc = "req_leds"
  /\ ret = 0
  /\ epc = "idle"
  /\ button_irqs = <<-1, -1>>
  /\ held = [l \in Lines |-> FALSE]
  /\ ledDir \in {"in", "out"}     \* whatever the pin was left as before load
  /\ ledVal \in {0, 1}
  /\ registered = {}
  /\ isr = [c \in Cpus |-> IsrIdle]
  /\ bottomhalf_work = [pending |-> FALSE, queued |-> 0]
  /\ wpc = [w \in Workers |-> "idle"]
  /\ log = <<>>
  /\ unheld = {}
  /\ hist = [fires |-> 0, nReturn |-> 0, nSubmit |-> 0, nIdleSub |-> 0, nCoalesced |-> 0,
             nExecDone |-> 0, lastEvent |-> "none", overlapped |-> FALSE,
             redundant |-> FALSE, ledAtFree |-> -1, lastRv |-> "none",
             firstErr |-> 0, logAtErr |-> 0, base |-> 0, evs |-> <<>>]

\* ---- collaborators: gpiolib, irq core, hardware ----

\* a read or write of line g; recorded when the line is not requested
Access(g) == IF held[g] THEN unheld ELSE unheld \cup {g}

\* gpio_set_value on the LED pin: only an output pin takes the value
LedAfterWrite(v) == IF ledDir = "out" THEN v ELSE ledVal

\* an invocation of button_isr for interrupt n is in progress
InFlight(n) == \E c \in Cpus : isr[c].pc # "idle" /\ isr[c].irq = n

Logged(op, id) == Append(log, <<op, id>>)

isrside == <<isr, bottomhalf_work, wpc, hist>>
\* ---- bottomhalf_init ----

\* a collaborator call of bottomhalf_init has failed with code e: remember the
\* code and how many acquisitions had been made
NoteErr(e) == [hist EXCEPT !.firstErr = e, !.logAtErr = Len(log)]

PerLine == variant = "per_line"     \* #ifdef NO_GPIO_REQUEST_ARRAY

\* ret = gpio_request(leds[0]) / gpio_request_array(leds, 1); if (ret) return ret
init_req_leds ==
  /\ ipc = "req_leds"
  /\ \/ /\ held' = [held EXCEPT ![leds[1]] = TRUE]
        /\ log' = Logged("gpio_request", leds[1])
        \* only gpio_request_array applies the GPIOF_OUT_INIT_LOW flag
        /\ ledDir' = IF PerLine THEN ledDir ELSE "out"
        /\ ledVal' = IF PerLine THEN ledVal ELSE 0
        /\ ret' = 0
        /\ ipc' = IF PerLine THEN "req_btn0" ELSE "req_btns"
        /\ UNCHANGED hist
     \/ /\ \E e \in ErrCodes : ret' = e /\ hist' = NoteErr(e)
        /\ ipc' = "returned"
        /\ UNCHANGED <<held, log, ledDir, ledVal>>
  /\ UNCHANGED <<variant, epc, button_irqs, registered, unheld>>
  /\ UNCHANGED <<isr, bottomhalf_work, wpc>>

\* ret = gpio_request(buttons[0]); if (ret) goto fail1
init_req_btn0 ==
  /\ ipc = "req_btn0"
  /\ \/ /\ held' = [held EXCEPT ![buttons[1]] = TRUE]
        /\ log' = Logged("gpio_request", buttons[1])
        /\ ret' = 0
        /\ ipc' = "req_btn1"
        /\ UNCHANGED hist
     \/ /\ \E e \in ErrCodes : ret' = e /\ hist' = NoteErr(e)
        /\ ipc' = "fail1"
        /\ UNCHANGED <<held, log>>
  /\ UNCHANGED <<variant, epc, button_irqs, registered, unheld, ledDir, ledVal>>
  /\ UNCHANGED <<isr, bottomhalf_work, wpc>>

\* ret = gpio_request(buttons[1]); if (ret) goto fail2
init_req_btn1 ==
  /\ ipc = "req_btn1"
  /\ \/ /\ held' = [held EXCEPT ![buttons[2]] = TRUE]
        /\ log' = Logged("gpio_request", buttons[2])
        /\ ret' = 0
        /\ ipc' = "get_btn"
        /\ UNCHANGED hist
     \/ /\ \E e \in ErrCodes : ret' = e /\ hist' = NoteErr(e)
        /\ ipc' = "fail2"
        /\ UNCHANGED <<held, log>>
  /\ UNCHANGED <<variant, epc, button_irqs, registered, unheld, ledDir, ledVal>>
  /\ UNCHANGED <<isr, bottomhalf_work, wpc>>

\* ret = gpio_request_array(buttons, 2); if (ret) goto fail1
\* (the array call requests every member or, on failure, leaves none held)
init_req_btns ==
  /\ ipc = "req_btns"
  /\ \/ /\ held' = [held EXCEPT ![buttons[1]] = TRUE, ![buttons[2]] = TRUE]
        /\ log' = log \o <<<<"gpio_request", buttons[1]>>,
                           <<"gpio_request", buttons[2]>>>>
        /\ ret' = 0
        /\ ipc' = "get_btn"
        /\ UNCHANGED hist
     \/ /\ \E e \in ErrCodes : ret' = e /\ hist' = NoteErr(e)
        /\ ipc' = "fail1"
        /\ UNCHANGED <<held, log>>
  /\ UNCHANGED <<variant, epc, button_irqs, registered, unheld, ledDir, ledVal>>
  /\ UNCHANGED <<isr, bottomhalf_work, wpc>>

\* pr_info(..., gpio_get_value(buttons[0].gpio))
init_get_btn ==
  /\ ipc = "get_btn"
  /\ unheld' = Access(buttons[1])
  /\ ipc' = "to_irq0"
  /\ UNCHANGED <<variant, ret, epc, button_irqs, held, ledDir, ledVal,
                 registered, log>>
  /\ UNCHANGED isrside

\* the label a failure after both button requests jumps to
FailAfterButtons == IF PerLine THEN "fail3" ELSE "fail2"
\* the label a failure of the second request_irq jumps to
FailAfterIrq0 == IF PerLine THEN "fail4" ELSE "fail3"

\* ret = gpio_to_irq(buttons[i]); if (ret < 0) goto ...; button_irqs[i] = ret
init_to_irq(i, at, next) ==
  /\ ipc = at
  /\ \/ /\ ret' = IrqOf(buttons[i])
        /\ button_irqs' = [button_irqs EXCEPT ![i] = ret']
        /\ ipc' = next
        /\ UNCHANGED hist
     \/ /\ \E e \in ErrCodes : ret' = e /\ hist' = NoteErr(e)
        /\ ipc' = FailAfterButtons
        /\ UNCHANGED button_irqs
  /\ UNCHANGED <<variant, epc, held, ledDir, ledVal, registered, log, unheld>>
  /\ UNCHANGED <<isr, bottomhalf_work, wpc>>

init_to_irq0 == init_to_irq(1, "to_irq0", "req_irq0")
init_to_irq1 == init_to_irq(2, "to_irq1", "req_irq1")

\* ret = request_irq(button_irqs[i], button_isr, ...); if (ret) goto ...
\* (an interrupt that already has a non-shared handler is refused)
init_req_irq(i, at, next, fail) ==
  /\ ipc = at
  /\ \/ /\ button_irqs[i] \notin registered
        /\ registered' = registered \cup {button_irqs[i]}
        /\ log' = Logged("request_irq", button_irqs[i])
        /\ ret' = 0
        /\ ipc' = next
        /\ UNCHANGED hist
     \/ /\ \E e \in ErrCodes : ret' = e /\ hist' = NoteErr(e)
        /\ ipc' = fail
        /\ UNCHANGED <<registered, log>>
  /\ UNCHANGED <<variant, epc, button_irqs, held, ledDir, ledVal, unheld>>
  /\ UNCHANGED <<isr, bottomhalf_work, wpc>>

init_req_irq0 == init_req_irq(1, "req_irq0", "to_irq1", FailAfterButtons)
init_req_irq1 == init_req_irq(2, "req_irq1", "returned", FailAfterIrq0)
\* ---- release helpers ----

\* free_irq(n): waits for running invocations of the handler, then detaches it
FreeIrqReady(n) == ~InFlight(n)
AfterFreeIrq(n) == registered \ {n}

\* gpio_free_array(a, num): gpio_free of a[0] .. a[num-1], in that order
HeldAfterFreeArray(a, num) ==
  [l \in Lines |-> IF \E k \in 1..num : a[k] = l THEN FALSE ELSE held[l]]
LogAfterFreeArray(a, num) ==
  log \o [k \in 1..num |-> <<"gpio_free", a[k]>>]

\* the LED level seen at the moment the LED line is given back
NoteLedFree == [hist EXCEPT !.ledAtFree = ledVal]

\* ---- bottomhalf_init: cleanup labels ----

\* per-line build only -- fail4: free_irq(button_irqs[0], NULL)
fail4 ==
  /\ ipc = "fail4"
  /\ FreeIrqReady(button_irqs[1])
  /\ registered' = AfterFreeIrq(button_irqs[1])
  /\ log' = Logged("free_irq", button_irqs[1])
  /\ ipc' = "fail3"
  /\ UNCHANGED <<variant, ret, epc, button_irqs, held, ledDir, ledVal, unheld>>
  /\ UNCHANGED isrside

\* per-line build -- fail3: gpio_free(buttons[1].gpio)
\* array build    -- fail3: free_irq(button_irqs[0], NULL)
fail3 ==
  /\ ipc = "fail3"
  /\ IF PerLine
       THEN /\ held' = [held EXCEPT ![buttons[2]] = FALSE]
            /\ log' = Logged("gpio_free", buttons[2])
            /\ UNCHANGED registered
       ELSE /\ FreeIrqReady(button_irqs[1])
            /\ registered' = AfterFreeIrq(button_irqs[1])
            /\ log' = Logged("free_irq", button_irqs[1])
            /\ UNCHANGED held
  /\ ipc' = "fail2"
  /\ UNCHANGED <<variant, ret, epc, button_irqs, ledDir, ledVal, unheld>>
  /\ UNCHANGED isrside

\* per-line build -- fail2: gpio_free(buttons[0].gpio)
\* array build    -- fail2: gpio_free_array(buttons, ARRAY_SIZE(leds))
fail2 ==
  /\ ipc = "fail2"
  /\ IF PerLine
       THEN /\ held' = [held EXCEPT ![buttons[1]] = FALSE]
            /\ log' = Logged("gpio_free", buttons[1])
       ELSE /\ held' = HeldAfterFreeArray(buttons, ARRAY_SIZE(leds))
            /\ log' = LogAfterFreeArray(buttons, ARRAY_SIZE(leds))
  /\ ipc' = "fail1"
  /\ UNCHANGED <<variant, ret, epc, button_irqs, ledDir, ledVal, registered,
                 unheld>>
  /\ UNCHANGED isrside

\* variant of the cleanup tail that ends in "return 0" instead of "return ret"
fail1_return0 ==
  /\ ipc = "fail1"
  /\ IF PerLine
       THEN /\ held' = [held EXCEPT ![leds[1]] = FALSE]
            /\ log' = Logged("gpio_free", leds[1])
       ELSE /\ held' = HeldAfterFreeArray(leds, ARRAY_SIZE(leds))
            /\ log' = LogAfterFreeArray(leds, ARRAY_SIZE(leds))
  /\ hist' = NoteLedFree
  /\ ret' = 0
  /\ ipc' = "returned"
  /\ UNCHANGED <<variant, epc, button_irqs, ledDir, ledVal, registered,
                 unheld>>
  /\ UNCHANGED <<isr, bottomhalf_work, wpc>>

\* per-line build -- fail1: gpio_free(leds[0].gpio)
\* array build    -- fail1: gpio_free_array(leds, ARRAY_SIZE(leds))
\* then: return ret
fail1 ==
  /\ ipc = "fail1"
  /\ IF PerLine
       THEN /\ held' = [held EXCEPT ![leds[1]] = FALSE]
            /\ log' = Logged("gpio_free", leds[1])
       ELSE /\ held' = HeldAfterFreeArray(leds, ARRAY_SIZE(leds))
            /\ log' = LogAfterFreeArray(leds, ARRAY_SIZE(leds))
  /\ hist' = NoteLedFree
  /\ ipc' = "returned"
  /\ UNCHANGED <<variant, ret, epc, button_irqs, ledDir, ledVal, registered,
                 unheld>>
  /\ UNCHANGED <<isr, bottomhalf_work, wpc>>

bottomhalf_init ==
  \/ init_req_leds \/ init_req_btn0 \/ init_req_btn1 \/ init_req_btns
  \/ init_get_btn \/ init_to_irq0 \/ init_req_irq0 \/ init_to_irq1
  \/ init_req_irq1 \/ fail4 \/ fail3 \/ fail2 \/ fail1

InitOk == ipc = "returned" /\ ret = 0
InitFailed == ipc = "returned" /\ ret # 0

\* ---- bottomhalf_exit (the host calls it only after a successful load) ----

\* free_irq(button_irqs[0], NULL)
exit_free_irq0 ==
  /\ InitOk /\ epc = "idle"
  /\ FreeIrqReady(button_irqs[1])
  /\ registered' = AfterFreeIrq(button_irqs[1])
  /\ log' = Logged("free_irq", button_irqs[1])
  /\ epc' = "free_irq1"
  /\ UNCHANGED <<variant, ipc, ret, button_irqs, held, ledDir, ledVal, unheld>>
  /\ UNCHANGED isrside

\* variant of line 207 that only detaches the handler and does not wait for
\* an invocation that is still running (as a non-synchronising call would)
exit_free_irq1_nowait ==
  /\ epc = "free_irq1"
  /\ registered' = AfterFreeIrq(button_irqs[2])
  /\ log' = Logged("free_irq", button_irqs[2])
  /\ epc' = "set_led"
  /\ UNCHANGED <<variant, ipc, ret, button_irqs, held, ledDir, ledVal, unheld>>
  /\ UNCHANGED isrside

\* free_irq(button_irqs[1], NULL)
exit_free_irq1 ==
  /\ epc = "free_irq1"
  /\ FreeIrqReady(button_irqs[2])
  /\ registered' = AfterFreeIrq(button_irqs[2])
  /\ log' = Logged("free_irq", button_irqs[2])
  /\ epc' = "set_led"
  /\ UNCHANGED <<variant, ipc, ret, button_irqs, held, ledDir, ledVal, unheld>>
  /\ UNCHANGED isrside

\* gpio_set_value(leds[0].gpio, 0)  (both builds; the loop runs once)
exit_set_led ==
  /\ epc = "set_led"
  /\ unheld' = Access(leds[1])
  /\ ledVal' = LedAfterWrite(0)
  /\ epc' = "free_leds"
  /\ UNCHANGED <<variant, ipc, ret, button_irqs, held, ledDir, registered, log>>
  /\ UNCHANGED isrside

\* gpio_free(leds[0].gpio)  /  gpio_free_array(leds, ARRAY_SIZE(leds))
exit_free_leds ==
  /\ epc = "free_leds"
  /\ IF PerLine
       THEN /\ held' = [held EXCEPT ![leds[1]] = FALSE]
            /\ log' = Logged("gpio_free", leds[1])
       ELSE /\ held' = HeldAfterFreeArray(leds, ARRAY_SIZE(leds))
            /\ log' = LogAfterFreeArray(leds, ARRAY_SIZE(leds))
  /\ hist' = NoteLedFree
  /\ epc' = IF PerLine THEN "free_btn0" ELSE "free_btns"
  /\ UNCHANGED <<variant, ipc, ret, button_irqs, ledDir, ledVal, registered,
                 unheld>>
  /\ UNCHANGED <<isr, bottomhalf_work, wpc>>

\* per-line build: gpio_free(buttons[i].gpio)
exit_free_btn(i, at, next) ==
  /\ epc = at
  /\ held' = [held EXCEPT ![buttons[i]] = FALSE]
  /\ log' = Logged("gpio_free", buttons[i])
  /\ epc' = next
  /\ UNCHANGED <<variant, ipc, ret, button_irqs, ledDir, ledVal, registered,
                 unheld>>
  /\ UNCHANGED isrside

exit_free_btn0 == exit_free_btn(1, "free_btn0", "free_btn1")
exit_free_btn1 == exit_free_btn(2, "free_btn1", "done")

\* array build: gpio_free_array(buttons, ARRAY_SIZE(buttons))
exit_free_btns ==
  /\ epc = "free_btns"
  /\ held' = HeldAfterFreeArray(buttons, ARRAY_SIZE(buttons))
  /\ log' = LogAfterFreeArray(buttons, ARRAY_SIZE(buttons))
  /\ epc' = "done"
  /\ UNCHANGED <<variant, ipc, ret, button_irqs, ledDir, ledVal, registered,
                 unheld>>
  /\ UNCHANGED isrside

bottomhalf_exit ==
  \/ exit_free_irq0 \/ exit_free_irq1 \/ exit_set_led \/ exit_free_leds
  \/ exit_free_btn0 \/ exit_free_btn1 \/ exit_free_btns
\* ---- button_isr ----

lifecycle == <<variant, ipc, ret, epc, button_irqs, held, registered, log>>

\* which logical event a firing with token n is, by the bindings known now
EventOf(n) == IF n = button_irqs[1] THEN "on"
              ELSE IF n = button_irqs[2] THEN "off" ELSE hist.lastEvent

\* which branch of lines 62-65 an invocation with token n can take
BranchOf(n) == IF n = button_irqs[1] THEN "on"
               ELSE IF n = button_irqs[2] THEN "off" ELSE "none"

AllIdle == \A d \in Cpus : isr[d].pc = "idle"

\* the branches taken by the invocations of the current busy period, kept
\* while there are at most two of them (as an unordered pair)
EvsWith(b) ==
  IF AllIdle THEN <<b>>
  ELSE IF Len(hist.evs) = 1
    THEN (IF b = "on" \/ hist.evs[1] = "none" THEN <<b, hist.evs[1]>>
          ELSE <<hist.evs[1], b>>)
  ELSE <<>>

\* button_isr(n, NULL) starts on processor c
Enter(c, n) ==
  /\ isr[c].pc = "idle"
  /\ hist.fires < MaxFires
  /\ isr' = [isr EXCEPT ![c] = [pc |-> "L62", irq |-> n, subs |-> 0,
                                ops |-> <<>>]]
  /\ hist' = [hist EXCEPT !.fires = @ + 1,
                          !.lastEvent = EventOf(n),
                          !.overlapped = @ \/ \E d \in Cpus : isr[d].pc # "idle",
                          !.base = IF AllIdle THEN ledVal
                                   ELSE IF Len(hist.evs) = 1 THEN @ ELSE 0,
                          !.evs = EvsWith(BranchOf(n))]
  /\ UNCHANGED <<ledDir, ledVal, unheld, bottomhalf_work, wpc>>
  /\ UNCHANGED lifecycle

\* the irq core delivers interrupt n: only while a handler is attached, and
\* never re-entering the handler of the same interrupt
Dispatch(c, n) ==
  /\ n \in registered
  /\ ~InFlight(n)
  /\ Enter(c, n)

\* variant of the handler that calls schedule_work first, at its entry,
\* before line 62 looks at the LED
isr_L62_after_submit(c) ==
  /\ isr[c].pc = "L62"
  /\ bottomhalf_work' =
       IF bottomhalf_work.pending THEN bottomhalf_work
       ELSE [pending |-> TRUE, queued |-> bottomhalf_work.queued + 1]
  /\ hist' = [hist EXCEPT !.nSubmit = @ + 1]
  /\ IF isr[c].irq = button_irqs[1]
       THEN /\ unheld' = Access(leds[1])
            /\ isr' = [isr EXCEPT ![c].pc = IF ledVal = 0 THEN "L63" ELSE "L64",
                                  ![c].ops = @ \o <<"submit", "get">>]
       ELSE /\ UNCHANGED unheld
            /\ isr' = [isr EXCEPT ![c].pc = "L64",
                                  ![c].ops = Append(@, "submit")]
  /\ UNCHANGED <<ledDir, ledVal, wpc>>
  /\ UNCHANGED lifecycle

\* if (irq == button_irqs[0] && !gpio_get_value(leds[0].gpio))
isr_L62(c) ==
  /\ isr[c].pc = "L62"
  /\ IF isr[c].irq = button_irqs[1]
       THEN /\ unheld' = Access(leds[1])
            /\ isr' = [isr EXCEPT ![c].pc = IF ledVal = 0 THEN "L63" ELSE "L64",
                                  ![c].ops = Append(@, "get")]
       ELSE /\ UNCHANGED unheld
            /\ isr' = [isr EXCEPT ![c].pc = "L64"]
  /\ UNCHANGED <<ledDir, ledVal, bottomhalf_work, wpc, hist>>
  /\ UNCHANGED lifecycle

\* variant of the write that inverts the line's current value instead of
\* storing the absolute value v
isr_set_toggle(c, at, v) ==
  /\ isr[c].pc = at
  /\ unheld' = Access(leds[1])
  /\ ledVal' = LedAfterWrite(1 - ledVal)
  /\ hist' = [hist EXCEPT !.redundant = @ \/ ledVal = v]
  /\ isr' = [isr EXCEPT ![c].pc = "L68", ![c].ops = Append(@, "set")]
  /\ UNCHANGED <<ledDir, bottomhalf_work, wpc>>
  /\ UNCHANGED lifecycle

\* gpio_set_value(leds[0].gpio, v) at line 63 (v = 1) and line 65 (v = 0)
isr_set(c, at, v) ==
  /\ isr[c].pc = at
  /\ unheld' = Access(leds[1])
  /\ ledVal' = LedAfterWrite(v)
  /\ hist' = [hist EXCEPT !.redundant = @ \/ ledVal = v]
  /\ isr' = [isr EXCEPT ![c].pc = "L68", ![c].ops = Append(@, "set")]
  /\ UNCHANGED <<ledDir, bottomhalf_work, wpc>>
  /\ UNCHANGED lifecycle

isr_L63(c) == isr_set(c, "L63", 1)
isr_L65(c) == isr_set(c, "L65", 0)

\* variant of line 64 in which schedule_work sits inside the branches, so an
\* invocation that does not write the LED returns without submitting
isr_L64_skip(c) ==
  /\ isr[c].pc = "L64"
  /\ IF isr[c].irq = button_irqs[2]
       THEN /\ unheld' = Access(leds[1])
            /\ isr' = [isr EXCEPT ![c].pc = IF ledVal = 1 THEN "L65" ELSE "L69",
                                  ![c].ops = Append(@, "get")]
       ELSE /\ UNCHANGED unheld
            /\ isr' = [isr EXCEPT ![c].pc = "L69"]
  /\ UNCHANGED <<ledDir, ledVal, bottomhalf_work, wpc, hist>>
  /\ UNCHANGED lifecycle

\* else if (irq == button_irqs[1] && gpio_get_value(leds[0].gpio))
isr_L64(c) ==
  /\ isr[c].pc = "L64"
  /\ IF isr[c].irq = button_irqs[2]
       THEN /\ unheld' = Access(leds[1])
            /\ isr' = [isr EXCEPT ![c].pc = IF ledVal = 1 THEN "L65" ELSE "L68",
                                  ![c].ops = Append(@, "get")]
       ELSE /\ UNCHANGED unheld
            /\ isr' = [isr EXCEPT ![c].pc = "L68"]
  /\ UNCHANGED <<ledDir, ledVal, bottomhalf_work, wpc, hist>>
  /\ UNCHANGED lifecycle

\* no execution in progress, nothing queued
WorkIdle ==
  /\ ~bottomhalf_work.pending
  /\ bottomhalf_work.queued = 0
  /\ \A w \in Workers : wpc[w] = "idle"

\* variant of line 68 that first waits for a running execution to end (as
\* flush_work would) and then submits
isr_L68_flush(c) ==
  /\ isr[c].pc = "L68"
  /\ \A w \in Workers : wpc[w] = "idle"
  /\ bottomhalf_work' =
       IF bottomhalf_work.pending THEN bottomhalf_work
       ELSE [pending |-> TRUE, queued |-> bottomhalf_work.queued + 1]
  /\ hist' = [hist EXCEPT
                !.nSubmit = @ + 1,
                !.nIdleSub = IF WorkIdle THEN @ + 1 ELSE @,
                !.nCoalesced = IF bottomhalf_work.pending THEN @ + 1 ELSE @]
  /\ isr' = [isr EXCEPT ![c].pc = "L69", ![c].subs = @ + 1,
                        ![c].ops = Append(@, "submit")]
  /\ UNCHANGED <<ledDir, ledVal, unheld, wpc>>
  /\ UNCHANGED lifecycle

\* variant of line 68 that queues a fresh work item on every interrupt
\* instead of the one static bottomhalf_work
isr_L68_fresh(c) ==
  /\ isr[c].pc = "L68"
  /\ bottomhalf_work' = [pending |-> TRUE,
                         queued |-> bottomhalf_work.queued + 1]
  /\ hist' = [hist EXCEPT
                !.nSubmit = @ + 1,
                !.nIdleSub = IF WorkIdle THEN @ + 1 ELSE @,
                !.nCoalesced = IF bottomhalf_work.pending THEN @ + 1 ELSE @]
  /\ isr' = [isr EXCEPT ![c].pc = "L69", ![c].subs = @ + 1,
                        ![c].ops = Append(@, "submit")]
  /\ UNCHANGED <<ledDir, ledVal, unheld, wpc>>
  /\ UNCHANGED lifecycle

\* schedule_work(&bottomhalf_work): queues the item unless its PENDING bit is
\* already set
isr_L68(c) ==
  /\ isr[c].pc = "L68"
  /\ bottomhalf_work' =
       IF bottomhalf_work.pending THEN bottomhalf_work
       ELSE [pending |-> TRUE, queued |-> bottomhalf_work.queued + 1]
  /\ hist' = [hist EXCEPT
                !.nSubmit = @ + 1,
                !.nIdleSub = IF WorkIdle THEN @ + 1 ELSE @,
                !.nCoalesced = IF bottomhalf_work.pending THEN @ + 1 ELSE @]
  /\ isr' = [isr EXCEPT ![c].pc = "L69", ![c].subs = @ + 1,
                        ![c].ops = Append(@, "submit")]
  /\ UNCHANGED <<ledDir, ledVal, unheld, wpc>>
  /\ UNCHANGED lifecycle

\* return IRQ_HANDLED
isr_L69(c) ==
  /\ isr[c].pc = "L69"
  /\ isr' = [isr EXCEPT ![c] = IsrIdle]
  /\ hist' = [hist EXCEPT !.lastRv = "IRQ_HANDLED", !.nReturn = @ + 1,
                          !.base = IF \A d \in Cpus \ {c} : isr[d].pc = "idle"
                                     THEN 0 ELSE @,
                          !.evs = IF \A d \in Cpus \ {c} : isr[d].pc = "idle"
                                    THEN <<>> ELSE @]
  /\ UNCHANGED <<ledDir, ledVal, unheld, bottomhalf_work, wpc>>
  /\ UNCHANGED lifecycle

button_isr(c) ==
  \/ isr_L62(c) \/ isr_L63(c) \/ isr_L64(c) \/ isr_L65(c)
  \/ isr_L68(c) \/ isr_L69(c)

\* ---- bottomhalf_work_fn, run by a kworker of the system workqueue ----

hw == <<ledDir, ledVal, unheld>>

\* The module's text and data (bottomhalf_work_fn, bottomhalf_work) are gone
\* once the host has unloaded it: after bottomhalf_exit returned or after
\* bottomhalf_init returned an error.  Neither path cancels or flushes the
\* work item, so a kworker can still hold it.
ModuleGone == InitFailed \/ epc = "done"

\* where a kworker goes from a position inside the function: on to next, or,
\* when the function's text is gone, possibly into a fault ("oops")
WorkerGoes(w, next) ==
  \/ wpc' = [wpc EXCEPT ![w] = next]
  \/ ModuleGone /\ next # "idle" /\ wpc' = [wpc EXCEPT ![w] = "oops"]

\* a kworker takes the queued item: clears PENDING and calls the function;
\* an item that is still executing is not started a second time
worker_take(w) ==
  /\ wpc[w] = "idle"
  /\ bottomhalf_work.queued > 0
  /\ \A x \in Workers : wpc[x] = "idle"
  /\ bottomhalf_work' = [pending |-> FALSE,
                         queued |-> bottomhalf_work.queued - 1]
  /\ WorkerGoes(w, "L49")
  /\ UNCHANGED <<isr, hist>>
  /\ UNCHANGED hw /\ UNCHANGED lifecycle

\* pr_info("Bottom half workqueue starts\n")
work_L49(w) ==
  /\ wpc[w] = "L49"
  /\ WorkerGoes(w, "L51")
  /\ UNCHANGED <<isr, hist, bottomhalf_work>>
  /\ UNCHANGED hw /\ UNCHANGED lifecycle

\* msleep(500)
work_L51(w) ==
  /\ wpc[w] = "L51"
  /\ WorkerGoes(w, "L53")
  /\ UNCHANGED <<isr, hist, bottomhalf_work>>
  /\ UNCHANGED hw /\ UNCHANGED lifecycle

\* pr_info("Bottom half workqueue ends\n"); the function returns
work_L53(w) ==
  /\ wpc[w] = "L53"
  /\ \/ /\ wpc' = [wpc EXCEPT ![w] = "idle"]
        /\ hist' = [hist EXCEPT !.nExecDone = @ + 1]
     \/ /\ ModuleGone
        /\ wpc' = [wpc EXCEPT ![w] = "oops"]
        /\ UNCHANGED hist
  /\ UNCHANGED <<isr, bottomhalf_work>>
  /\ UNCHANGED hw /\ UNCHANGED lifecycle

bottomhalf_work_fn(w) == work_L49(w) \/ work_L51(w) \/ work_L53(w)

\* ---- the module in its host ----

Next ==
  \/ bottomhalf_init
  \/ bottomhalf_exit
  \/ \E c \in Cpus, n \in Irqs : Dispatch(c, n)
  \/ \E c \in Cpus : button_isr(c)
  \/ \E w \in Workers : worker_take(w)
  \/ \E w \in Workers : bottomhalf_work_fn(w)

Spec == Init /\ [][Next]_vars
\* button_isr called directly with a token n that belongs to neither binding,
\* such as the interrupt of the LED line (the irq core never does this; a
\* caller exercising the handler can)
DirectCall(c, n) ==
  /\ InitOk /\ epc = "idle"
  /\ n \notin {button_irqs[1], button_irqs[2]}
  /\ Enter(c, n)

NextUnit == Next \/ \E c \in Cpus, n \in Irqs : DirectCall(c, n)

SpecUnit == Init /\ [][NextUnit]_vars

\* button_isr entered for a button whose handler is still running on another
\* processor (the irq core never does this for one interrupt line; two
\* callers of the handler can)
Reentrant(c, n) ==
  /\ InitOk /\ epc = "idle"
  /\ n \in registered
  /\ InFlight(n)
  /\ Enter(c, n)

NextRace == Next \/ \E c \in Cpus, n \in Irqs : Reentrant(c, n)

SpecRace == Init /\ [][NextRace]_vars

\* ---- properties ----

Acquired == SelectSeq(log, LAMBDA e : e[1] \in {"gpio_request", "request_irq"})
Released == SelectSeq(log, LAMBDA e : e[1] \in {"gpio_free", "free_irq"})
Undo(e) == <<IF e[1] = "gpio_request" THEN "gpio_free" ELSE "free_irq", e[2]>>
Reverse(q) == [k \in 1..Len(q) |-> q[Len(q) + 1 - k]]
UndoAll(q) == [k \in 1..Len(q) |-> Undo(q[k])]
FreeCount(l) == Cardinality({k \in 1..Len(log) : log[k] = <<"gpio_free", l>>})
HasBinding == \E k \in 1..Len(log) : log[k][1] = "request_irq"
\* bottomhalf_init failed at gpio_to_irq(buttons[1]): button 17's handler was
\* registered and button 18 never got an interrupt number
FailedAtMap18 == InitFailed /\ HasBinding /\ button_irqs[2] = -1
Running == {w \in Workers : wpc[w] # "idle"}

\* C1: when bottomhalf_init returns a failure, no GPIO line is still held
\* (LED line, button 17, button 18), in both builds.
C1_NoLineHeldOnFailure ==
  InitFailed => \A l \in Lines : ~held[l]

\* C2: when bottomhalf_init returns a failure, no interrupt binding remains
\* registered; when the mapping of button 18 failed after button 17's handler
\* was registered, the mapping error is returned, all three lines are released
\* and button 17's binding is unregistered.
C2_NoBindingOnFailure ==
  /\ InitFailed => registered = {}
  /\ FailedAtMap18 => /\ ret \in ErrCodes
                      /\ \A l \in Lines : ~held[l]
                      /\ button_irqs[1] \notin registered

\* C3: on every failing path of bottomhalf_init the releases performed are
\* exactly the acquisitions that had succeeded, undone in reverse order.
C3_ReleaseIsReverseOfAcquire ==
  InitFailed => Released = Reverse(UndoAll(Acquired))

\* C4: no line is read or written while it is not held.
C4_AccessOnlyWhileHeld ==
  unheld = {}

\* C5: a button's interrupt binding is registered only while that button's
\* line is held.
C5_BindingOnlyWhileLineHeld ==
  \A i \in 1..2 : button_irqs[i] \in registered => held[buttons[i]]

\* C6: after a successful bottomhalf_init and any sequence of non-overlapping
\* handler invocations, the LED is on iff the last on/off firing was "on" (off
\* when there was none), and the handler wrote the line only to change it.
C6_LedFollowsLastEvent ==
  (/\ InitOk /\ epc = "idle"
   /\ \A c \in Cpus : isr[c].pc = "idle"
   /\ ~hist.overlapped)
  => /\ ledVal = 1 <=> hist.lastEvent = "on"
     /\ ~hist.redundant

\* C7: every invocation of button_isr submits bottomhalf_work exactly once
\* and returns IRQ_HANDLED, whether or not the LED changed and also for a
\* token that matches neither binding.
C7_OneSubmissionPerInvocation ==
  /\ \A c \in Cpus :
       /\ isr[c].pc \in {"L62", "L63", "L64", "L65", "L68"} => isr[c].subs = 0
       /\ isr[c].pc = "L69" => isr[c].subs = 1
  /\ hist.nSubmit = hist.nReturn + Cardinality({c \in Cpus : isr[c].pc = "L69"})
  /\ hist.nReturn > 0 => hist.lastRv = "IRQ_HANDLED"

\* an invocation with a token of neither binding has submitted the work and
\* is about to return
C7_Witness ==
  \E c \in Cpus :
    /\ isr[c].pc = "L69"
    /\ isr[c].irq \notin {button_irqs[1], button_irqs[2]}
    /\ isr[c].subs = 1

\* C8: at most one execution of bottomhalf_work_fn is in progress and at most
\* one invocation of it is queued, in every reachable state.
C8_NoConcurrentOrDoublePending ==
  /\ Cardinality(Running) <= 1
  /\ bottomhalf_work.queued <= 1

\* a re-submission during an execution: one running, one queued
C8_Witness ==
  /\ Cardinality(Running) = 1
  /\ bottomhalf_work.queued = 1
  /\ hist.nSubmit >= 2

\* C9: N submissions each made while the work is idle give exactly N
\* executions; two submissions back to back, before the first execution
\* starts, give exactly one execution.
C9_ExecutionCount ==
  /\ (WorkIdle /\ hist.nIdleSub = hist.nSubmit)
       => hist.nExecDone = hist.nSubmit
  /\ (WorkIdle /\ hist.nSubmit = 2 /\ hist.nCoalesced = 1)
       => hist.nExecDone = 1

\* two back-to-back submissions were coalesced and the single execution ended
C9_Witness ==
  /\ WorkIdle
  /\ hist.nSubmit = 2 /\ hist.nCoalesced = 1 /\ hist.nIdleSub = 1
  /\ hist.nExecDone = 1

\* C10: when bottomhalf_exit has returned, both bindings are unregistered,
\* the LED line held the inactive value when it was released, and each of the
\* three lines has been released exactly once and none is held.
C10_ShutdownLeavesNothing ==
  epc = "done" =>
    /\ registered = {}
    /\ hist.ledAtFree = 0
    /\ \A l \in Lines : ~held[l] /\ FreeCount(l) = 1
\* bottomhalf_exit is past its two free_irq calls
Unregistered == epc \in {"set_led", "free_leds", "free_btn0", "free_btn1",
                         "free_btns", "done"}

\* C11: once bottomhalf_exit has unregistered both bindings, no invocation of
\* button_isr begins or continues: no step of the handler, so no submission
\* of bottomhalf_work and no LED write by the handler, happens after it.
C11_NoHandlerAfterUnregister ==
  [][Unregistered => /\ isr' = isr
                     /\ hist'.fires = hist.fires
                     /\ hist'.nSubmit = hist.nSubmit
                     /\ (ledVal' # ledVal => epc = "set_led")]_vars

\* handlers ran and submitted before the bindings were unregistered
C11_Witness ==
  /\ Unregistered
  /\ registered = {}
  /\ hist.nSubmit >= 2
\* C12: bottomhalf_exit neither cancels nor waits for bottomhalf_work: its
\* steps leave the work item and the kworkers alone, the function touches no
\* line and no binding, and an invocation that was submitted before
\* bottomhalf_exit returned is still executed in full afterwards.
C12_SubmittedWorkCompletesAfterExit ==
  /\ [][epc' # epc => UNCHANGED <<bottomhalf_work, wpc>>]_vars
  /\ [][wpc' # wpc => UNCHANGED <<held, registered, ledDir, ledVal, unheld>>]_vars
  /\ [](epc = "done" => \A w \in Workers : wpc[w] # "oops")
\* The system workqueue keeps its kworkers running: a queued item is taken
\* and a started function keeps executing.
WorkerFairness ==
  \A w \in Workers : WF_vars(worker_take(w)) /\ WF_vars(bottomhalf_work_fn(w))

SpecFair == Spec /\ WorkerFairness

InBody(w) == wpc[w] \in {"L49", "L51", "L53"}

\* C13: with the kworkers scheduled fairly, every submission is followed by
\* an execution of bottomhalf_work_fn that starts and finishes, and the work
\* item ends up idle once interrupts have stopped.
C13_SubmissionLeadsToExecution ==
  /\ bottomhalf_work.pending ~> (\E w \in Workers : wpc[w] = "L49")
  /\ \A w \in Workers : InBody(w) ~> (wpc[w] = "idle")
  /\ <>[]WorkIdle
\* C14: within one invocation of button_isr the read of the LED and the
\* conditional write come before the submission: when the submission has
\* been made, the invocation has no LED access left to do.
C14_LedBeforeSubmission ==
  \A c \in Cpus :
    LET ops == isr[c].ops IN
      /\ \A i, j \in 1..Len(ops) :
           (i < j /\ ops[i] = "submit") => ops[j] \notin {"get", "set"}
      /\ (\E i \in 1..Len(ops) : ops[i] = "submit") => isr[c].pc = "L69"

\* an invocation has read the LED, written it and then submitted the work
C14_Witness ==
  \E c \in Cpus : isr[c].pc = "L69" /\ isr[c].ops = <<"get", "set", "submit">>
\* how far an invocation of button_isr has got
Rank(pc) == CASE pc = "L62" -> 1 [] pc = "L63" -> 2 [] pc = "L64" -> 3
              [] pc = "L65" -> 4 [] pc = "L68" -> 5 [] pc = "L69" -> 6
              [] OTHER -> 7

\* C15: button_isr never blocks: a running invocation can always take its
\* next step whatever the work item and the kworkers are doing, each step
\* brings it nearer to its return, and the msleep is a step of a kworker only.
C15_HandlerNeverBlocks ==
  /\ [](\A c \in Cpus : isr[c].pc # "idle" => ENABLED button_isr(c))
  /\ [][\A c \in Cpus : (isr[c].pc # "idle" /\ isr'[c] # isr[c])
                          => Rank(isr'[c].pc) > Rank(isr[c].pc)]_vars
  /\ [][(\E w \in Workers : wpc[w] = "L51" /\ wpc'[w] # "L51")
          => isr' = isr]_vars

\* an invocation submits and is about to return while a kworker sleeps in
\* an earlier execution
C15_Witness ==
  /\ \E c \in Cpus : isr[c].pc = "L69"
  /\ \E w \in Workers : wpc[w] = "L51"
  /\ bottomhalf_work.pending
\* every step of bottomhalf_init succeeded: the LED request, both button
\* requests, both mappings and both registrations
AllStepsOk ==
  /\ hist.firstErr = 0
  /\ button_irqs = <<IrqOf(buttons[1]), IrqOf(buttons[2])>>
  /\ Acquired = <<<<"gpio_request", leds[1]>>, <<"gpio_request", buttons[1]>>,
                  <<"gpio_request", buttons[2]>>,
                  <<"request_irq", IrqOf(buttons[1])>>,
                  <<"request_irq", IrqOf(buttons[2])>>>>

\* C16: bottomhalf_init returns 0 iff every step succeeded; on a failure it
\* returns the (non-zero) code of the first failing call and makes no further
\* acquisition after that failure.
C16_ReturnsFirstError ==
  /\ ipc = "returned" => /\ ret = 0 <=> AllStepsOk
                         /\ hist.firstErr # 0 => ret = hist.firstErr /\ ret # 0
  /\ hist.firstErr # 0 =>
       \A k \in (hist.logAtErr + 1)..Len(log) :
         log[k][1] \in {"gpio_free", "free_irq"}

\* the second request_irq failed, the cleanup ran and the code came back
C16_Witness ==
  /\ InitFailed
  /\ hist.firstErr = ret
  /\ hist.logAtErr = 4
  /\ Len(log) > 4
\* lines 62-65 run alone, without interleaving, from LED value v
Alone(v, ev) ==
  IF ledDir # "out" THEN v
  ELSE IF ev = "on" /\ v = 0 THEN 1
  ELSE IF ev = "off" /\ v = 1 THEN 0
  ELSE v

\* C17: when two overlapping invocations of button_isr (same button or one of
\* each, from either LED value) have both finished their LED steps, the LED
\* holds the value that one of the two sequential orders would have produced.
C17_BenignRace ==
  \A c \in Cpus :
    (/\ isr[c].pc = "L69"
     /\ \A d \in Cpus \ {c} : isr[d].pc = "idle"
     /\ Len(hist.evs) = 2)
    => ledVal \in {Alone(Alone(hist.base, hist.evs[1]), hist.evs[2]),
                   Alone(Alone(hist.base, hist.evs[2]), hist.evs[1])}

\* two invocations for the ON button both read the LED as off and both wrote
C17_Witness ==
  /\ \E c \in Cpus : isr[c].pc = "L69" /\ isr[c].ops = <<"get", "set", "submit">>
                     /\ \A d \in Cpus \ {c} : isr[d].pc = "idle"
  /\ hist.evs = <<"on", "on">>
  /\ hist.base = 0
  /\ hist.redundant
  /\ ledVal = 1
\* C18: once bottomhalf_init holds the LED line, and until a handler
\* invocation writes it, the line is an output at the inactive level, in the
\* gpio_request_array build and in the per-line gpio_request build alike.
C18_LedInactiveAtAcquisition ==
  (held[leds[1]] /\ hist.fires = 0 /\ epc = "idle")
  => (ledDir = "out" /\ ledVal = 0)
====
